---- MODULE Spec2Model ----
\* Model of src/Main.py: generate_beam_report, generate_sfd_plot and
\* generate_bmd_plot.  One run is the straight-line pipeline
\*   read_excel -> build document -> generate_pdf.
\*
\* Numbers are exact dyadic values held as an integer count of quarters
\* (q stands for q/4), so that Python's float formatting of them is exact
\* arithmetic.  Numeric text is a sequence of one-character strings.
EXTENDS Integers, Sequences, FiniteSets, TLC

\* ---------------------------------------------------------------- bounds
MaxRows == 3
MaxRuns == 2
MaxRowsTwice == 2

\* ---------------------------------------------------------------- state
VARIABLES
  pc,         \* position of the run: start, loaded, cover, scope, matrix, built, done, failed
  xlsxFound,  \* whether beam_data.xlsx exists when the run starts
  df,         \* the frame read_excel returned
  beamPng,    \* what os.path.exists('beam.png') returned
  packages,   \* doc.packages
  preamble,   \* doc.preamble
  doc,        \* doc.data, the body of the document
  stdout,     \* the lines printed
  files,      \* the files the run left in the working directory
  error,      \* the exception that ended the run, or "none"
  failedAt,   \* the step that raised it, or "none"
  exited,     \* whether the process has exited
  exitCode,   \* its exit status once exited
  runs,       \* how many times the program has been started
  prev,       \* what the previous run built
  metadata    \* the cover metadata offered to the run; generate_beam_report takes none

vars == << pc, xlsxFound, df, beamPng, packages, preamble, doc, stdout, files,
           error, failedAt, exited, exitCode, runs, prev, metadata >>

\* --------------------------------------------------------- spreadsheet
ColX == "X"
ColV == "Shear force"
ColM == "Bending Moment"

\* A cell: a number (q quarters), a piece of text, an empty worksheet cell,
\* or (in the frame only) the float NaN.
Num(q) == [k |-> "num", q |-> q, s |-> <<>>]
Txt(s) == [k |-> "txt", q |-> 0, s |-> s]
Blank == [k |-> "blank", q |-> 0, s |-> <<>>]
NaN == [k |-> "nan", q |-> 0, s |-> <<>>]

\* A worksheet row: one cell under each of the three headings.
MkRow(x, v, m) == [X |-> x, V |-> v, M |-> m]

\* The cell of a row under the heading c.
Cell(row, c) ==
  CASE c = ColX -> row.X
    [] c = ColV -> row.V
    [] c = ColM -> row.M

\* Rows a worksheet may hold: the three rows (0,0,0) (6,10,-5) (12,0,0),
\* a row of fractional values, a row whose shear cell is the text 'n/a', and
\* a row whose shear cell is the text 'abc' and whose moment cell is empty.
RowPool ==
  { MkRow(Num(0), Num(0), Num(0)),
    MkRow(Num(24), Num(40), Num(-20)),
    MkRow(Num(48), Num(0), Num(0)),
    MkRow(Num(13), Num(-5), Num(7)),
    MkRow(Num(36), Txt(<<"n", "/", "a">>), Num(2)),
    MkRow(Num(20), Txt(<<"a", "b", "c">>), Blank) }

RECURSIVE SeqsOfLen(_, _)
SeqsOfLen(S, k) ==
  IF k = 0 THEN {<<>>}
  ELSE { Append(sq, x) : sq \in SeqsOfLen(S, k - 1), x \in S }

SeqsUpTo(S, n) == UNION { SeqsOfLen(S, k) : k \in 0..n }

\* A row of a sheet that lacks the column c: nothing stands under c.
Absent == Blank
DropCol(row, c) ==
  MkRow(IF c = ColX THEN Absent ELSE row.X,
        IF c = ColV THEN Absent ELSE row.V,
        IF c = ColM THEN Absent ELSE row.M)

\* The worksheets of at most n rows with all three columns.
FullSheets(pool, n) ==
  { [cols |-> {ColX, ColV, ColM}, rows |-> rs] : rs \in SeqsUpTo(pool, n) }

\* The worksheets of at most n rows with one of the three columns absent.
DroppedSheets(pool, n) ==
  UNION { { [cols |-> {ColX, ColV, ColM} \ {c}, rows |-> rs] :
              rs \in SeqsUpTo({ DropCol(r, c) : r \in pool }, n) } :
          c \in {ColX, ColV, ColM} }

\* The rows of the sheets that lack a column, and of the sheets used when
\* the program is run more than once.
RowPoolTwice ==
  { MkRow(Num(24), Num(40), Num(-20)),
    MkRow(Num(13), Num(-5), Num(7)) }

Sheets(n) == FullSheets(RowPool, n) \cup DroppedSheets(RowPoolTwice, n)
SheetsTwice(n) == FullSheets(RowPoolTwice, n) \cup DroppedSheets(RowPoolTwice, n)

\* The texts pandas reads as a missing value (its default na_values).
NaStrings ==
  { <<>>,
    <<"#", "N", "/", "A">>,
    <<"#", "N", "/", "A", " ", "N", "/", "A">>,
    <<"#", "N", "A">>,
    <<"-", "1", ".", "#", "I", "N", "D">>,
    <<"-", "1", ".", "#", "Q", "N", "A", "N">>,
    <<"-", "N", "a", "N">>,
    <<"-", "n", "a", "n">>,
    <<"1", ".", "#", "I", "N", "D">>,
    <<"1", ".", "#", "Q", "N", "A", "N">>,
    <<"<", "N", "A", ">">>,
    <<"N", "/", "A">>,
    <<"N", "A">>,
    <<"N", "U", "L", "L">>,
    <<"N", "a", "N">>,
    <<"N", "o", "n", "e">>,
    <<"n", "/", "a">>,
    <<"n", "a", "n">>,
    <<"n", "u", "l", "l">> }

\* What read_excel makes of one cell: an empty cell and a text that is one of
\* the missing-value texts become NaN, anything else is kept.
ReadCell(cell) ==
  IF cell.k = "blank" \/ (cell.k = "txt" /\ cell.s \in NaStrings) THEN NaN
  ELSE cell

RECURSIVE ReadRows(_)
ReadRows(rows) ==
  IF rows = <<>> THEN <<>>
  ELSE << MkRow(ReadCell(Head(rows).X), ReadCell(Head(rows).V),
                ReadCell(Head(rows).M)) >> \o ReadRows(Tail(rows))

\* pd.read_excel with its defaults: the frame holds the sheet's columns and
\* rows, each cell converted; no column is required and no value is refused.
read_excel(sheet) == [cols |-> sheet.cols, rows |-> ReadRows(sheet.rows)]

\* dtype pandas infers for a column of the frame.
ColDtype(fr, c) ==
  IF fr.rows = <<>> \/ \E i \in DOMAIN fr.rows : Cell(fr.rows[i], c).k = "txt"
    THEN "object"
  ELSE IF \E i \in DOMAIN fr.rows :
            \/ Cell(fr.rows[i], c).k = "nan"
            \/ Cell(fr.rows[i], c).q % 4 # 0
    THEN "float64"
  ELSE "int64"

\* dtype of the row Series that iterrows yields: the common dtype of the columns.
RowDtype(fr) ==
  IF \E c \in fr.cols : ColDtype(fr, c) = "object" THEN "object"
  ELSE IF \E c \in fr.cols : ColDtype(fr, c) = "float64" THEN "float64"
  ELSE "int64"

\* Python type of r[c] for row i of df.iterrows().
ItemType(fr, i, c) ==
  LET cell == Cell(fr.rows[i], c) IN
  IF RowDtype(fr) = "float64" THEN "float"
  ELSE IF RowDtype(fr) = "int64" THEN "int"
  ELSE IF cell.k = "txt" THEN "str"
  ELSE IF cell.k = "nan" THEN "float"
  ELSE IF ColDtype(fr, c) = "float64" THEN "float"
  ELSE IF ColDtype(fr, c) = "int64" THEN "int"
  ELSE IF cell.q % 4 = 0 THEN "int" ELSE "float"

\* ------------------------------------------------------ number formatting
Digits == <<"0", "1", "2", "3", "4", "5", "6", "7", "8", "9">>

Abs(n) == IF n < 0 THEN -n ELSE n

RECURSIVE NatStr(_)
NatStr(n) == IF n < 10 THEN <<Digits[n + 1]>>
             ELSE NatStr(n \div 10) \o <<Digits[(n % 10) + 1]>>

Sign(q) == IF q < 0 THEN <<"-">> ELSE <<>>

\* str() of an int holding q/4 (q a multiple of 4).
IntStr(q) == Sign(q) \o NatStr(Abs(q) \div 4)

\* str() of a float holding q/4: shortest repr, always with a fraction part.
FloatStr(q) ==
  Sign(q) \o NatStr(Abs(q) \div 4) \o <<".">> \o
  CASE Abs(q) % 4 = 0 -> <<"0">>
    [] Abs(q) % 4 = 1 -> <<"2", "5">>
    [] Abs(q) % 4 = 2 -> <<"5">>
    [] Abs(q) % 4 = 3 -> <<"7", "5">>

\* format(q/4, ".2f"): two decimals, exact for quarters.
Fmt2f(q) ==
  Sign(q) \o NatStr(Abs(q) \div 4) \o <<".">> \o
  CASE Abs(q) % 4 = 0 -> <<"0", "0">>
    [] Abs(q) % 4 = 1 -> <<"2", "5">>
    [] Abs(q) % 4 = 2 -> <<"5", "0">>
    [] Abs(q) % 4 = 3 -> <<"7", "5">>

\* |q|/4 in tenths, a tie rounded to the even tenth.
RoundTenths(q) ==
  LET n == Abs(q) * 5
      f == n \div 2
  IN IF n % 2 = 0 THEN f
     ELSE IF f % 2 = 0 THEN f ELSE f + 1

\* format(q/4, ".1f").
Fmt1f(q) ==
  Sign(q) \o NatStr(RoundTenths(q) \div 10) \o <<".">> \o
  <<Digits[(RoundTenths(q) % 10) + 1]>>

\* str() and format() of the float NaN, whatever the precision.
NanStr == <<"n", "a", "n">>

\* f"{r[c]}" for row i: str() of the item.
ItemStr(fr, i, c) ==
  LET cell == Cell(fr.rows[i], c) IN
  CASE ItemType(fr, i, c) = "str" -> cell.s
    [] ItemType(fr, i, c) = "int" -> IntStr(cell.q)
    [] ItemType(fr, i, c) = "float" ->
         IF cell.k = "nan" THEN NanStr ELSE FloatStr(cell.q)

\* f"{r[c]:.2f}" and f"{r[c]:.1f}" for a numeric item.
ItemFmt2f(cell) == IF cell.k = "nan" THEN NanStr ELSE Fmt2f(cell.q)
ItemFmt1f(cell) == IF cell.k = "nan" THEN NanStr ELSE Fmt1f(cell.q)

\* ------------------------------------------------------- document blocks
\* Text is a sequence of string pieces whose concatenation is the text.
NoEscape(text) == [kind |-> "NoEscape", text |-> text]
Plain(text) == [kind |-> "str", text |-> text]
Package(name, options) == [kind |-> "Package", name |-> name, options |-> options]
Section(title, data) == [kind |-> "Section", title |-> title, data |-> data]
Subsection(title, data) == [kind |-> "Subsection", title |-> title, data |-> data]
Figure(position, data) == [kind |-> "Figure", position |-> position, data |-> data]
Image(file, width) == [kind |-> "Image", file |-> file, width |-> width]
Caption(text) == [kind |-> "Caption", text |-> text]
Tabular(spec, data) == [kind |-> "Tabular", spec |-> spec, row_height |-> "1.4", data |-> data]
Row(cells) == [kind |-> "Row", cells |-> cells]
HLine == [kind |-> "HLine"]
Command(name) == [kind |-> "Command", name |-> name]

\* The values the identifier box and the footer carry (string literals of the source).
LeadEngineer == "Apoorv Goyal"
RegistrationID == "23BCG10116"
SubjectLine == "Simply Supported Beam - 12m Span Analysis"
DateOfIssue == "\\today"

\* The body a fresh Document(...) holds: the font size command.
NewDocumentStale(old) == old
NewDocument(old) == <<Command("normalsize")>>

\* The packages a fresh Document(...) holds.
DefaultPackages ==
  << Package("fontenc", <<"T1">>), Package("inputenc", <<"utf8">>),
     Package("lmodern", <<>>), Package("textcomp", <<>>),
     Package("lastpage", <<>>) >>

PackagesOf ==
  << Package("tgadventor", <<>>), Package("tcolorbox", <<>>), Package("xcolor", <<>>),
     Package("tikz", <<>>), Package("pgfplots", <<>>),
     Package("geometry", <<"margin=0.75in">>), Package("fancyhdr", <<>>) >>

ThemePreamble ==
  << NoEscape(<<"\\definecolor{slate}{HTML}{273746}">>),
     NoEscape(<<"\\definecolor{accent}{HTML}{2E86C1}">>),
     NoEscape(<<"\\renewcommand{\\familydefault}{\\sfdefault}">>),
     NoEscape(<<"\\pgfplotsset{compat=1.18}">>) >>

\* Cover metadata a caller may wish for: the values of the source, or others.
MetadataPool ==
  { [author |-> LeadEngineer, id |-> RegistrationID,
     subject |-> SubjectLine, date |-> DateOfIssue],
    [author |-> "A. N. Other", id |-> "00XYZ00000",
     subject |-> "Cantilever - 3m Span Analysis", date |-> "1 January 2024"] }

BoxHead == "\n    \\begin{tcolorbox}[colframe=slate, colback=white, title=Project Identifiers]\n    \\textbf{Lead Engineer:} "
BoxTail == "\n    \\end{tcolorbox}\n    "

IdentifierBoxOfMetadata ==
  NoEscape(<< BoxHead, metadata.author,
              " \\\\\n    \\textbf{Registration ID:} ", metadata.id,
              " \\\\\n    \\textbf{Subject:} ", metadata.subject,
              " \\\\\n    \\textbf{Date of Issue:} ", metadata.date,
              BoxTail >>)
IdentifierBox ==
  NoEscape(<< BoxHead, LeadEngineer,
              " \\\\\n    \\textbf{Registration ID:} ", RegistrationID,
              " \\\\\n    \\textbf{Subject:} ", SubjectLine,
              " \\\\\n    \\textbf{Date of Issue:} ", DateOfIssue,
              BoxTail >>)

CoverBlocks ==
  << NoEscape(<<"\\begin{center}">>),
     NoEscape(<<"{\\Huge \\textbf{\\color{slate}TECHNICAL MEMORANDUM} \\par}">>),
     NoEscape(<<"\\vspace{0.5cm}">>),
     NoEscape(<<"{\\large \\textit{Structural Analysis of Flexural Members}} \\par">>),
     NoEscape(<<"\\vspace{0.8cm}">>),
     IdentifierBox,
     NoEscape(<<"\\end{center}">>),
     NoEscape(<<"\\vspace{0.5cm}">>) >>

\* The figure: the image only when beam.png exists, the caption always.
FigureAlwaysImage(exists) ==
  Figure("h!", << Image("beam.png", "0.6\\textwidth"),
                  Caption("Analytical Free Body Diagram.") >>)
BeamFigure(exists) ==
  Figure("h!",
         (IF exists THEN <<Image("beam.png", "0.6\\textwidth")>> ELSE <<>>)
         \o <<Caption("Analytical Free Body Diagram.")>>)

ScopeSection(exists) ==
  Section("Project Scope",
    << Plain("This memorandum presents the calculated internal force distribution for a primary structural element. The analysis focuses on deriving the Shear Force Diagram (SFD) and Bending Moment Diagram (BMD) under static load conditions."),
       Subsection("Configuration Modeling",
         << Plain("The beam is modeled with ideal pinned-roller boundary conditions. The geometry and loading path are visualized in the figure below:"),
            BeamFigure(exists) >>) >>)

FooterPreamble ==
  << NoEscape(<<"\\pagestyle{fancy}">>),
     NoEscape(<<"\\fancyhf{}">>),
     NoEscape(<<"\\lfoot{\\small \\color{gray} ", LeadEngineer, " | ", RegistrationID, "}">>),
     NoEscape(<<"\\rfoot{\\small Page \\thepage}">>) >>

\* ------------------------------------------------------- summary table
\* 0-based positions start, start+step, ... below n: the slice [start::step].
RECURSIVE Slice(_, _, _)
Slice(start, step, n) ==
  IF start >= n THEN <<>> ELSE <<start>> \o Slice(start + step, step, n)

\* df.iloc[::2]: the positions of the sampled rows.
Iloc2Odd(n) == Slice(1, 2, n)
Iloc2(n) == Slice(0, 2, n)

\* The exception f"{row[c]:<spec>}" raises for row i, or "none".
FormatError(fr, i, c) ==
  IF c \notin fr.cols THEN "KeyError"
  ELSE IF ItemType(fr, i, c) = "str" THEN "ValueError"
  ELSE "none"

\* The exception building the table row of row i raises (cells left to right).
RowError(fr, i) ==
  IF FormatError(fr, i, ColX) # "none" THEN FormatError(fr, i, ColX)
  ELSE IF FormatError(fr, i, ColV) # "none" THEN FormatError(fr, i, ColV)
  ELSE FormatError(fr, i, ColM)

\* The table row of row i: X to 2 decimals, shear and moment to 1 decimal.
TableRow(fr, i) ==
  Row(<< ItemFmt2f(Cell(fr.rows[i], ColX)), ItemFmt1f(Cell(fr.rows[i], ColV)),
         ItemFmt1f(Cell(fr.rows[i], ColM)) >>)

\* The loop of lines 75-76 over the positions ps: the rows added and the
\* exception that ended it ("none" when it ran to the end).
RECURSIVE TableLoop(_, _)
TableLoop(fr, ps) ==
  IF ps = <<>> THEN [rows |-> <<>>, err |-> "none"]
  ELSE IF RowError(fr, Head(ps) + 1) # "none"
    THEN [rows |-> <<>>, err |-> RowError(fr, Head(ps) + 1)]
  ELSE LET rest == TableLoop(fr, Tail(ps))
       IN [rows |-> <<TableRow(fr, Head(ps) + 1)>> \o rest.rows, err |-> rest.err]

TableHeader ==
  Row(<< <<"\\textbf{Point (m)}">>, <<"\\textbf{Shear (kN)}">>,
         <<"\\textbf{Moment (kNm)}">> >>)

MatrixSection(fr) ==
  Section("Numerical Computation Matrix",
    << Plain("Sampled data points extracted from the finite element simulation:"),
       NoEscape(<<"\\vspace{0.3cm}">>),
       Tabular("p{3cm} p{3cm} p{3cm}",
               <<TableHeader, HLine>> \o TableLoop(fr, Iloc2(Len(fr.rows))).rows) >>)

\* --------------------------------------------------------------- charts
\* The exception the comprehension of a plot raises over the column c, or "none".
CoordsError(fr, c) ==
  IF fr.rows = <<>> THEN "none"
  ELSE IF ColX \notin fr.cols \/ c \notin fr.cols THEN "KeyError"
  ELSE "none"

\* f"({r['X']}, {r[c]}) " for row i.
Point(fr, i, c) ==
  <<"(">> \o ItemStr(fr, i, ColX) \o <<",", " ">> \o ItemStr(fr, i, c) \o <<")", " ">>

\* "".join of the points of rows i..N, in df.iterrows() order.
RECURSIVE CoordsFrom(_, _, _)
CoordsFrom(fr, c, i) ==
  IF i > Len(fr.rows) THEN <<>> ELSE Point(fr, i, c) \o CoordsFrom(fr, c, i + 1)

CoordsSkipFirst(fr, c) == CoordsFrom(fr, c, 2)
Coords(fr, c) == CoordsFrom(fr, c, 1)

SfdHead == "\n    \\begin{center}\n    \\begin{tikzpicture}\n    \\begin{axis}[width=11cm, height=5cm, axis x line=center, axis y line=left, \n        xlabel=$x$, ylabel=$V$, grid=major, grid style={dotted, slate!30},\n        title=\\textbf{V-Diagram}, title style={color=accent}]\n    \\addplot[thick, accent, fill=accent, fill opacity=0.1] coordinates {"
BmdHead == "\n    \\begin{center}\n    \\begin{tikzpicture}\n    \\begin{axis}[width=11cm, height=5cm, axis x line=bottom, axis y line=left, \n        xlabel=$x$, ylabel=$M$, grid=major, grid style={dotted, slate!30},\n        title=\\textbf{M-Diagram}, title style={color=slate}]\n    \\addplot[thick, slate, fill=slate, fill opacity=0.15] coordinates {"
PlotTail == "} \\closedcycle;\n    \\end{axis}\n    \\end{tikzpicture}\n    \\end{center}\n    "

generate_sfd_plot(fr) == <<SfdHead>> \o Coords(fr, ColV) \o <<PlotTail>>
generate_bmd_plot(fr) == <<BmdHead>> \o Coords(fr, ColM) \o <<PlotTail>>

EnvelopesSectionSwapped(fr) ==
  Section("Internal Force Envelopes",
    << Plain("The graphical plots below describe the mechanical response of the beam."),
       Subsection("Bending Moment Variance", <<NoEscape(generate_bmd_plot(fr))>>),
       Subsection("Shear Force Variance", <<NoEscape(generate_sfd_plot(fr))>>) >>)
EnvelopesSection(fr) ==
  Section("Internal Force Envelopes",
    << Plain("The graphical plots below describe the mechanical response of the beam."),
       Subsection("Shear Force Variance", <<NoEscape(generate_sfd_plot(fr))>>),
       Subsection("Bending Moment Variance", <<NoEscape(generate_bmd_plot(fr))>>) >>)

\* The exception lines 78-85 raise: the shear plot is generated first.
EnvelopesError(fr) ==
  IF CoordsError(fr, ColV) # "none" THEN CoordsError(fr, ColV)
  ELSE CoordsError(fr, ColM)

\* ------------------------------------------------------------ the run
EmptyFrame == [cols |-> {}, rows |-> <<>>]

TexFile == "Apoorv_Goyal_Memorandum.tex"
PdfFile == "Apoorv_Goyal_Memorandum.pdf"
LogFile == "Apoorv_Goyal_Memorandum.log"

\* A printed line: its first character, an emoji, named by its code point,
\* and the rest of the line.
Line(emoji, rest) == [emoji |-> emoji, rest |-> rest]
MsgReading == Line("U+1F4CA", " Reading beam data from Excel...")
MsgGenerating == Line("U+1F4C4", " Generating Memorandum PDF...")
MsgSuccess == Line("U+2705", " Success: Apoorv_Goyal_Memorandum.pdf")

NoPrev == [built |-> FALSE, df |-> EmptyFrame, beamPng |-> FALSE,
           packages |-> <<>>, preamble |-> <<>>, doc |-> <<>>]

Init ==
  /\ pc = "start"
  /\ xlsxFound = FALSE
  /\ df = EmptyFrame
  /\ beamPng = FALSE
  /\ packages = <<>>
  /\ preamble = <<>>
  /\ doc = <<>>
  /\ stdout = <<>>
  /\ files = {}
  /\ error = "none"
  /\ failedAt = "none"
  /\ exited = FALSE
  /\ exitCode = 0
  /\ runs = 1
  /\ prev = NoPrev
  /\ metadata \in MetadataPool

\* An exception nothing catches: traceback, exit status 1.
Raise(exc, step) ==
  /\ pc' = "failed"
  /\ error' = exc
  /\ failedAt' = step
  /\ exited' = TRUE
  /\ exitCode' = 1

\* Lines 8-9 with beam_data.xlsx absent or one of the sheets S: print, then
\* read_excel.  On a stdout whose encoding has no emoji (ascii, cp1252) the
\* print raises before anything is written and read_excel is not called.
LoadFrom(S) ==
  /\ pc = "start"
  /\ \E utf8 \in BOOLEAN, found \in BOOLEAN :
       /\ xlsxFound' = found
       /\ IF ~utf8
            THEN /\ stdout' = stdout
                 /\ df' = df
                 /\ Raise("UnicodeEncodeError", "print")
          ELSE IF found
            THEN /\ stdout' = Append(stdout, MsgReading)
                 /\ \E sheet \in S : df' = read_excel(sheet)
                 /\ pc' = "loaded"
                 /\ UNCHANGED << error, failedAt, exited, exitCode >>
          ELSE /\ stdout' = Append(stdout, MsgReading)
               /\ df' = df
               /\ Raise("FileNotFoundError", "load")
  /\ UNCHANGED << beamPng, packages, preamble, doc, files, runs, prev, metadata >>

\* The sheets beam_data.xlsx may hold.
AllSheets == Sheets(MaxRows)
Load == LoadFrom(AllSheets)

\* Lines 12-46: the document, its packages and theme, the cover blocks.
BuildCover ==
  /\ pc = "loaded"
  /\ packages' = DefaultPackages \o PackagesOf
  /\ preamble' = ThemePreamble
  /\ doc' = NewDocument(doc) \o CoverBlocks
  /\ pc' = "cover"
  /\ UNCHANGED << xlsxFound, df, beamPng, stdout, files, error, failedAt,
                  exited, exitCode, runs, prev, metadata >>

\* Lines 48-56: the scope section, with the figure of beam.png when it exists.
BuildScope ==
  /\ pc = "cover"
  /\ \E exists \in BOOLEAN :
       /\ beamPng' = exists
       /\ doc' = Append(doc, ScopeSection(exists))
  /\ pc' = "scope"
  /\ UNCHANGED << xlsxFound, df, packages, preamble, stdout, files, error,
                  failedAt, exited, exitCode, runs, prev, metadata >>

\* Lines 58-76: page break, footer preamble, the section of the summary table.
BuildMatrix ==
  /\ pc = "scope"
  /\ LET err == TableLoop(df, Iloc2(Len(df.rows))).err IN
     IF err = "none"
       THEN /\ doc' = doc \o << NoEscape(<<"\\newpage">>), MatrixSection(df) >>
            /\ preamble' = preamble \o FooterPreamble
            /\ pc' = "matrix"
            /\ UNCHANGED << error, failedAt, exited, exitCode >>
       ELSE /\ doc' = Append(doc, NoEscape(<<"\\newpage">>))
            /\ preamble' = preamble \o FooterPreamble
            /\ Raise(err, "matrix")
  /\ UNCHANGED << xlsxFound, df, beamPng, packages, stdout, files, runs, prev, metadata >>

\* Lines 78-85: the section of the two charts.
BuildEnvelopes ==
  /\ pc = "matrix"
  /\ IF EnvelopesError(df) = "none"
       THEN /\ doc' = Append(doc, EnvelopesSection(df))
            /\ pc' = "built"
            /\ UNCHANGED << error, failedAt, exited, exitCode >>
       ELSE /\ doc' = doc
            /\ Raise(EnvelopesError(df), "envelopes")
  /\ UNCHANGED << xlsxFound, df, beamPng, packages, preamble, stdout, files,
                  runs, prev, metadata >>

\* What generate_pdf(..., clean_tex=False) leaves behind, by how pdflatex ended:
\* the .tex is written before the compiler runs and is never removed.
KeptDropTex(outcome, partial) ==
  IF outcome = "ok" THEN {PdfFile}
  ELSE IF outcome = "error" THEN {LogFile} \cup (IF partial THEN {PdfFile} ELSE {})
  ELSE {}
Kept(outcome, partial) ==
  IF outcome = "ok" THEN {TexFile, PdfFile}
  ELSE IF outcome = "error"
    THEN {TexFile, LogFile} \cup (IF partial THEN {PdfFile} ELSE {})
  ELSE {TexFile}

\* How the pdflatex run inside generate_pdf may end.
Outcomes == {"ok", "error", "missing"}

\* Whether line 90 prints the success message after generate_pdf.
SuccessAlways(outcome) == TRUE
PrintsSuccess(outcome) == outcome = "ok"

\* What generate_pdf writes to stdout.  When pdflatex ends with an error it
\* prints the compiler's output before it raises again; a compiler that ends
\* well or cannot be started prints nothing.
CompilerOutput == Line("none", "<output of pdflatex>")
Printed(outcome) == IF outcome = "error" THEN <<CompilerOutput>> ELSE <<>>

\* Lines 87-90 and the end of the script: print, generate_pdf, print.
\* On a compiler error stdout holds line 88's message and then the compiler's
\* output; line 90 is not reached.
\* pdflatex ends well ("ok"), ends with an error ("error": CalledProcessError,
\* with or without a partial pdf), or cannot be started ("missing": CompilerError).
Render ==
  /\ pc = "built"
  /\ \E outcome \in Outcomes, partial \in BOOLEAN :
       /\ files' = files \cup Kept(outcome, partial)
       /\ stdout' = stdout \o <<MsgGenerating>> \o Printed(outcome) \o
                    (IF PrintsSuccess(outcome) THEN <<MsgSuccess>> ELSE <<>>)
       /\ IF outcome = "ok"
            THEN /\ pc' = "done"
                 /\ exited' = TRUE
                 /\ exitCode' = 0
                 /\ UNCHANGED << error, failedAt >>
            ELSE Raise(IF outcome = "error" THEN "CalledProcessError"
                       ELSE "CompilerError", "render")
  /\ UNCHANGED << xlsxFound, df, beamPng, packages, preamble, doc, runs, prev, metadata >>

\* The same load step over the smaller family of sheets.
AllSheetsTwice == SheetsTwice(MaxRowsTwice)
LoadTwice == LoadFrom(AllSheetsTwice)

\* Whether the run got through lines 12-85, so that doc is the whole document.
Built == pc \in {"built", "done"} \/ (pc = "failed" /\ failedAt = "render")

\* The program is started again after a run has ended.  Files stay on disk;
\* the locals of the ended run are dead, each is assigned before it is read.
Reinvoke ==
  /\ pc \in {"done", "failed"}
  /\ runs < MaxRuns
  /\ runs' = runs + 1
  /\ prev' = IF Built
               THEN [built |-> TRUE, df |-> df, beamPng |-> beamPng,
                     packages |-> packages, preamble |-> preamble, doc |-> doc]
               ELSE NoPrev
  /\ pc' = "start"
  /\ stdout' = <<>>
  /\ error' = "none"
  /\ failedAt' = "none"
  /\ exited' = FALSE
  /\ exitCode' = 0
  /\ metadata' \in MetadataPool
  /\ UNCHANGED << xlsxFound, df, beamPng, packages, preamble, doc, files >>

Next == Load \/ BuildCover \/ BuildScope \/ BuildMatrix \/ BuildEnvelopes \/ Render

Spec == Init /\ [][Next]_vars

NextTwice ==
  LoadTwice \/ BuildCover \/ BuildScope \/ BuildMatrix \/ BuildEnvelopes \/ Render
  \/ Reinvoke

SpecTwice == Init /\ [][NextTwice]_vars

\* The steps follow one another without waiting on anything.
FairSpec == Spec /\ WF_vars(Next)

\* ------------------------------------------- reading the document back
\* The decimal text of a number read back, in hundredths.
DigitVal(ch) == CHOOSE d \in 0..9 : Digits[d + 1] = ch

RECURSIVE DigitsVal(_)
DigitsVal(chs) ==
  IF chs = <<>> THEN 0
  ELSE DigitsVal(SubSeq(chs, 1, Len(chs) - 1)) * 10 + DigitVal(chs[Len(chs)])

FirstIdx(chs, ch) ==
  CHOOSE i \in 1..Len(chs) : chs[i] = ch /\ \A j \in 1..(i - 1) : chs[j] # ch

Hundredths(chs) ==
  LET neg == chs # <<>> /\ chs[1] = "-"
      body == IF neg THEN Tail(chs) ELSE chs
      dot == IF \E i \in 1..Len(body) : body[i] = "." THEN FirstIdx(body, ".")
             ELSE Len(body) + 1
      whole == DigitsVal(SubSeq(body, 1, dot - 1))
      frac == SubSeq(body, dot + 1, Len(body))
      cents == IF Len(frac) = 0 THEN 0
               ELSE IF Len(frac) = 1 THEN 10 * DigitVal(frac[1])
               ELSE DigitsVal(frac)
      mag == whole * 100 + cents
  IN IF neg THEN -mag ELSE mag

\* The points "(x, y) " of a coordinate text, in order of appearance.
RECURSIVE PointsOf(_)
PointsOf(chs) ==
  IF chs = <<>> THEN <<>>
  ELSE LET close == FirstIdx(chs, ")")
           body == SubSeq(chs, 2, close - 1)
           comma == FirstIdx(body, ",")
       IN << [x |-> Hundredths(SubSeq(body, 1, comma - 1)),
              y |-> Hundredths(SubSeq(body, comma + 2, Len(body)))] >>
          \o PointsOf(SubSeq(chs, close + 2, Len(chs)))

\* The blocks of a given kind (and title) among the blocks bs.
OfKind(bs, kind) == SelectSeq(bs, LAMBDA b : b.kind = kind)
Titled(bs, kind, title) ==
  SelectSeq(bs, LAMBDA b : b.kind = kind /\ b.title = title)

\* The frame has the three columns and every cell is a number.
ValidTable ==
  /\ ColX \in df.cols /\ ColV \in df.cols /\ ColM \in df.cols
  /\ \A i \in DOMAIN df.rows : \A c \in df.cols : Cell(df.rows[i], c).k = "num"

\* How far the run got (a failed run stays where it failed).
ScopeDone ==
  \/ pc \in {"scope", "matrix", "built", "done"}
  \/ pc = "failed" /\ failedAt \in {"matrix", "envelopes", "render"}
MatrixDone ==
  \/ pc \in {"matrix", "built", "done"}
  \/ pc = "failed" /\ failedAt \in {"envelopes", "render"}

\* The data rows of the summary table: the rows after the header and the rule.
SummaryRows ==
  LET sec == Titled(doc, "Section", "Numerical Computation Matrix")[1]
      tab == OfKind(sec.data, "Tabular")[1]
  IN SubSeq(tab.data, 3, Len(tab.data))

\* The coordinate text of the chart in the subsection titled t.
ChartCoords(t) ==
  LET sec == Titled(doc, "Section", "Internal Force Envelopes")[1]
      sub == Titled(sec.data, "Subsection", t)[1]
      text == sub.data[1].text
  IN SubSeq(text, 2, Len(text) - 1)

Cents(q) == 25 * q

\* C1: for a valid table of N rows the summary table holds exactly ceil(N/2)
\* data rows, and its k-th data row shows row 2*(k-1) of the table (0-based):
\* the position exactly to 2 decimals, shear and moment to the nearest tenth.
C1_Stride2 ==
  (MatrixDone /\ ValidTable) =>
    /\ Len(Titled(doc, "Section", "Numerical Computation Matrix")) = 1
    /\ Len(SummaryRows) = (Len(df.rows) + 1) \div 2
    /\ \A k \in 1..Len(SummaryRows) :
         LET r == df.rows[2 * k - 1]
             cells == SummaryRows[k].cells
         IN /\ SummaryRows[k].kind = "Row"
            /\ Len(cells) = 3
            /\ Hundredths(cells[1]) = Cents(Cell(r, ColX).q)
            /\ Abs(Hundredths(cells[2]) - Cents(Cell(r, ColV).q)) <= 5
            /\ Abs(Hundredths(cells[3]) - Cents(Cell(r, ColM).q)) <= 5

C1_Witness ==
  /\ pc = "done" /\ ValidTable /\ Len(df.rows) = 3
  /\ Len(SummaryRows) = 2
  /\ SummaryRows[1].cells[1] = <<"0", ".", "0", "0">>
  /\ SummaryRows[2].cells[1] = <<"1", "2", ".", "0", "0">>

\* C2: for a valid table of N rows each chart holds exactly N points, the i-th
\* being (X, Shear force) resp. (X, Bending Moment) of row i, values unchanged.
C2_ChartPoints ==
  (Built /\ ValidTable) =>
    LET sfd == PointsOf(ChartCoords("Shear Force Variance"))
        bmd == PointsOf(ChartCoords("Bending Moment Variance"))
    IN /\ Len(sfd) = Len(df.rows)
       /\ Len(bmd) = Len(df.rows)
       /\ \A i \in 1..Len(df.rows) :
            /\ sfd[i] = [x |-> Cents(Cell(df.rows[i], ColX).q), y |-> Cents(Cell(df.rows[i], ColV).q)]
            /\ bmd[i] = [x |-> Cents(Cell(df.rows[i], ColX).q), y |-> Cents(Cell(df.rows[i], ColM).q)]

C2_Witness ==
  /\ pc = "done" /\ ValidTable /\ Len(df.rows) = 3
  /\ ChartCoords("Shear Force Variance") =
       << "(", "0", ",", " ", "0", ")", " ",
          "(", "6", ",", " ", "1", "0", ")", " ",
          "(", "1", "2", ",", " ", "0", ")", " " >>

\* C3: when beam_data.xlsx does not exist the run fails at the load step with
\* FileNotFoundError (the InputNotFound kind): nothing of the document has been
\* built and no file has been written.  It fails for a run whose stdout cannot
\* encode the emoji of line 8: that run ends with UnicodeEncodeError.
C3_MissingInput ==
  (pc # "start" /\ ~xlsxFound) =>
    /\ pc = "failed"
    /\ failedAt = "load"
    /\ error = "FileNotFoundError"
    /\ packages = <<>> /\ preamble = <<>> /\ doc = <<>>
    /\ files = {}

\* A required column is absent from the frame, or one of its cells is not a
\* number (a text, or the NaN read from an empty or missing-value cell).
Malformed ==
  \/ ColX \notin df.cols \/ ColV \notin df.cols \/ ColM \notin df.cols
  \/ \E i \in DOMAIN df.rows : \E c \in df.cols : Cell(df.rows[i], c).k # "num"

\* C4: when the file exists but a required column is absent or holds a
\* non-numeric value, the run fails at the load step with a format error,
\* before any part of the document is built (stated of the runs in which
\* read_excel was called).
C4_FormatErrorAtLoad ==
  (pc # "start" /\ failedAt # "print" /\ xlsxFound /\ Malformed) =>
    /\ pc = "failed"
    /\ failedAt = "load"
    /\ doc = <<>>

\* The figure of the 'Configuration Modeling' subsection and the subsection itself.
ConfigSubsection ==
  LET sec == Titled(doc, "Section", "Project Scope")[1]
  IN Titled(sec.data, "Subsection", "Configuration Modeling")[1]
ConfigFigure == OfKind(ConfigSubsection.data, "Figure")[1]

\* C5: the figure holds the image of beam.png exactly when beam.png exists; in
\* either case the subsection text and the caption are there, nothing is
\* raised, and the run goes on to the table step.
C5_OptionalImage ==
  /\ ScopeDone =>
       /\ Len(OfKind(ConfigFigure.data, "Image")) = (IF beamPng THEN 1 ELSE 0)
       /\ Len(OfKind(ConfigFigure.data, "Caption")) = 1
       /\ Len(OfKind(ConfigSubsection.data, "str")) = 1
       /\ failedAt # "scope"
  /\ pc = "scope" => (error = "none" /\ ENABLED BuildMatrix)

C5_Witness ==
  /\ pc = "done" /\ ~beamPng
  /\ OfKind(ConfigFigure.data, "Image") = <<>>
  /\ ConfigFigure.data = <<Caption("Analytical Free Body Diagram.")>>

\* C6: a build given the same table and the same presence of beam.png as the
\* build of the previous run yields the same packages, preamble and body.
C6_Deterministic ==
  (Built /\ prev.built /\ prev.df = df /\ prev.beamPng = beamPng) =>
    /\ packages = prev.packages
    /\ preamble = prev.preamble
    /\ doc = prev.doc

C6_Witness ==
  /\ runs = 2 /\ pc = "done" /\ prev.built
  /\ prev.df = df /\ prev.beamPng = beamPng
  /\ Len(df.rows) = 2
  /\ doc = prev.doc

Range(sq) == { sq[i] : i \in DOMAIN sq }

Rank(p) ==
  CASE p = "start" -> 0 [] p = "loaded" -> 1 [] p = "cover" -> 2
    [] p = "scope" -> 3 [] p = "matrix" -> 4 [] p = "built" -> 5
    [] p = "done" -> 6 [] p = "failed" -> 6

C7_Outcomes ==
  /\ exited <=> pc \in {"done", "failed"}
  /\ pc = "done" =>
       /\ exitCode = 0 /\ error = "none"
       /\ MsgSuccess \in Range(stdout)
       /\ PdfFile \in files
  /\ pc = "failed" =>
       /\ exitCode # 0 /\ error # "none"
       /\ MsgSuccess \notin Range(stdout)

\* C7: every run ends, in success (exit status 0, success message, the pdf
\* written) or in failure (non-zero exit status, no success message); once a
\* step has failed or the run has succeeded no step runs, and no step is repeated.
C7_TerminalOutcome ==
  /\ []C7_Outcomes
  /\ [][pc \notin {"done", "failed"} /\ Rank(pc') > Rank(pc)]_vars
  /\ <>(pc \in {"done", "failed"})

C7_Witness ==
  /\ pc = "failed" /\ failedAt = "matrix" /\ error = "ValueError"
  /\ exited /\ exitCode = 1
  /\ stdout = <<MsgReading>>

\* The identifier box among the cover blocks.
CoverDone == pc \notin {"start", "loaded"} /\ failedAt \notin {"print", "load"}
CoverBox == SelectSeq(doc, LAMBDA b : b.kind = "NoEscape" /\ b.text[1] = BoxHead)[1]

\* C8 as stated: the identifier box shows the author, id, subject and date of
\* the metadata handed to the build.
C8_BoxOfMetadata ==
  CoverDone =>
    /\ CoverBox.text[2] = metadata.author
    /\ CoverBox.text[4] = metadata.id
    /\ CoverBox.text[6] = metadata.subject
    /\ CoverBox.text[8] = metadata.date

\* C8 amended: the identifier box shows the same fixed author, id, subject and
\* date in every build, whatever metadata is offered.
C8_BoxFixed ==
  CoverDone =>
    /\ Len(CoverBox.text) = 9
    /\ CoverBox.text[2] = "Apoorv Goyal"
    /\ CoverBox.text[4] = "23BCG10116"
    /\ CoverBox.text[6] = "Simply Supported Beam - 12m Span Analysis"
    /\ CoverBox.text[8] = "\\today"

C8_Witness ==
  /\ pc = "done"
  /\ metadata.author = "A. N. Other"
  /\ CoverBox.text[2] = "Apoorv Goyal"

\* C9: after the render step, failed or not, the .tex file is on disk; a failed
\* render ends the run with the compiler's error.
C9_TexKept ==
  /\ (pc = "done" \/ failedAt = "render") => TexFile \in files
  /\ failedAt = "render" =>
       /\ pc = "failed"
       /\ error \in {"CalledProcessError", "CompilerError"}

C9_Witness ==
  /\ pc = "failed" /\ failedAt = "render" /\ error = "CalledProcessError"
  /\ TexFile \in files /\ PdfFile \notin files
  /\ stdout = <<MsgReading, MsgGenerating, CompilerOutput>>

\* The top-level blocks of the body, each named by its section title or kind.
RECURSIVE Outline(_)
Outline(bs) ==
  IF bs = <<>> THEN <<>>
  ELSE << IF Head(bs).kind = "Section" THEN Head(bs).title
          ELSE IF Head(bs).kind = "Command" THEN Head(bs).name
          ELSE IF Head(bs).text[1] = BoxHead THEN "IdentifierBox"
          ELSE Head(bs).text[1] >> \o Outline(Tail(bs))

C10_Order ==
  Built =>
    /\ Outline(doc) =
         << "normalsize",
            "\\begin{center}",
            "{\\Huge \\textbf{\\color{slate}TECHNICAL MEMORANDUM} \\par}",
            "\\vspace{0.5cm}",
            "{\\large \\textit{Structural Analysis of Flexural Members}} \\par",
            "\\vspace{0.8cm}",
            "IdentifierBox",
            "\\end{center}",
            "\\vspace{0.5cm}",
            "Project Scope",
            "\\newpage",
            "Numerical Computation Matrix",
            "Internal Force Envelopes" >>
    /\ Len(OfKind(ConfigSubsection.data, "Figure")) = 1
    /\ LET sec == Titled(doc, "Section", "Numerical Computation Matrix")[1]
       IN Len(OfKind(sec.data, "Tabular")) = 1
    /\ LET sec == Titled(doc, "Section", "Internal Force Envelopes")[1]
           subs == OfKind(sec.data, "Subsection")
       IN /\ Len(subs) = 2
          /\ subs[1].title = "Shear Force Variance"
          /\ subs[1].data[1].text[1] = SfdHead
          /\ subs[2].title = "Bending Moment Variance"
          /\ subs[2].data[1].text[1] = BmdHead

\* C10: once the build is over the body holds cover, scope section with its
\* figure, summary table, shear chart, moment chart, in this order and once
\* each; and the steps run in the order load, build, render.
C10_FixedOrder ==
  /\ []C10_Order
  /\ [][Rank(pc') = Rank(pc) + 1 \/ pc' = "failed"]_vars

C10_Witness ==
  /\ pc = "done"
  /\ Len(doc) = 13
  /\ doc[13].kind = "Section" /\ doc[13].title = "Internal Force Envelopes"

====
